---- MODULE Spec2Model ----
(***************************************************************************)
(* Model of pygimli/physics/ert/processing.py: the unique index of an ERT  *)
(* measurement (uniqueERTIndex), its inverse (generateDataFromUniqueIndex),*)
(* reciprocal analysis (getReciprocals, extractReciprocals) and the merge  *)
(* of several data containers (combineMultipleData).                       *)
(*                                                                         *)
(* A data container is a record [sensorCount, ms] where ms is the sequence *)
(* of its measurements; a measurement is a record with the index fields    *)
(* a, b, m, n and the value fields r, i, u, err, valid, rec.  Real values  *)
(* are exact rationals <<num, den>> with den > 0; NaN is <<0, 0>>.         *)
(***************************************************************************)
EXTENDS Integers, Sequences, FiniteSets, TLC

VARIABLES
    data,      \* the data container handed to the call; <<fwd, bwd>> for
               \* extractReciprocals; the chargeability vector for the
               \* IP manager
    unF,       \* forward keys uniqueERTIndex(data), <<>> before the call;
               \* the array generateDataFromUniqueIndex is handed
    unB,       \* reverse keys uniqueERTIndex(data, reverse=True)
    scheme,    \* container returned by generateDataFromUniqueIndex
    raised,    \* exception raised by the last call, "none" if it returned
    pc,        \* the call that acted last; the position in invert()
    pre,       \* history: the container(s) as they were before the call
    args,      \* history: the keyword arguments of the call
    out        \* the values the call returned or printed

vars == <<data, unF, unB, scheme, raised, pc, pre, args, out>>

\* Largest sensor count of a layout in the index codec runs.
MaxSensors == 4

\* Sensor count of the larger layout in the reciprocity and merge runs.
LayoutSensors == 8

\* Resistances and currents of the input measurements range over 1..MaxVal.
MaxVal == 2

----------------------------------------------------------------------------
(* Helpers *)

Min(x, y) == IF x <= y THEN x ELSE y
Max(x, y) == IF x >= y THEN x ELSE y

\* the sequence f[1], ..., f[n] with every element evaluated
RECURSIVE Tup(_, _)
Tup(f, n) == IF n = 0 THEN <<>> ELSE Append(Tup(f, n - 1), f[n])

\* A measurement with the given index fields and value fields.
Meas(a, b, m, n, r, i, u, valid) ==
    [a |-> a, b |-> b, m |-> m, n |-> n, r |-> r, i |-> i, u |-> u,
     err |-> <<0, 1>>, valid |-> valid, rec |-> <<0, 1>>]

Container(sensorCount, ms) == [sensorCount |-> sensorCount, ms |-> ms]

\* stands for a container that no call has produced yet
NoContainer == Container(0, <<>>)

----------------------------------------------------------------------------
(* Real arithmetic on exact rationals <<numerator, denominator>>, den > 0 *)

Abs(x) == IF x < 0 THEN -x ELSE x

RECURSIVE GCD(_, _)
GCD(x, y) == IF y = 0 THEN x ELSE GCD(y, x % y)

RNorm(n, d) ==
    LET g == GCD(Abs(n), Abs(d))
        sg == IF d < 0 THEN -1 ELSE 1
    IN  <<(sg * n) \div g, (sg * d) \div g>>

Rat(k) == <<k, 1>>
NaN == <<0, 0>>
IsNaN(x) == x[2] = 0
RAdd(x, y) == RNorm(x[1] * y[2] + y[1] * x[2], x[2] * y[2])
RSub(x, y) == RNorm(x[1] * y[2] - y[1] * x[2], x[2] * y[2])
RMul(x, y) == RNorm(x[1] * y[1], x[2] * y[2])
\* a zero divisor raises ZeroDivisionError in Python; the inputs of the model
\* are positive, so no divisor of the modelled code is zero
RDiv(x, y) == IF y[1] = 0 THEN "ZeroDivisionError"
              ELSE RNorm(x[1] * y[2], x[2] * y[1])

----------------------------------------------------------------------------
(* uniqueERTIndex, processing.py lines 9-37 *)

normABMN_Unordered(d) ==
    [a |-> d.a + 1, b |-> d.b + 1, m |-> d.m + 1, n |-> d.n + 1]

\* lines 25-28: each pair ordered (min, max) and shifted by one
normABMN(d) ==
    [a |-> Min(d.a, d.b) + 1, b |-> Max(d.a, d.b) + 1,
     m |-> Min(d.m, d.n) + 1, n |-> Max(d.m, d.n) + 1]

abmn_Commented(reverse) ==
    IF reverse THEN <<"n", "m", "b", "a">> ELSE <<"a", "b", "m", "n">>

\* lines 29-31: the digit order, current and potential pair exchanged if reverse
abmn(reverse) ==
    IF reverse THEN <<"m", "n", "a", "b">> ELSE <<"a", "b", "m", "n">>

\* lines 33-35: ind = ind * nI + normABMN[el] over the first k tokens
RECURSIVE PackIndex(_, _, _, _)
PackIndex(norm, order, nI, k) ==
    IF k = 0 THEN 0
    ELSE PackIndex(norm, order, nI, k - 1) * nI + norm[order[k]]

\* lines 23-24: nI = 0 means sensorCount + 1
IndexBase(d, nI) == IF nI = 0 THEN d.sensorCount + 1 ELSE nI

\* the vector of keys of container d
uniqueERTIndex(d, nI, reverse) ==
    Tup([j \in 1..Len(d.ms) |->
            PackIndex(normABMN(d.ms[j]), abmn(reverse), IndexBase(d, nI), 4)],
        Len(d.ms))

----------------------------------------------------------------------------
(* generateDataFromUniqueIndex, processing.py lines 39-64 *)

\* lines 54-58: digit i (0-based) of key ind, by repeated mod and floor-div
RECURSIVE IndexColumn(_, _, _)
IndexColumn(ind, nI, i) ==
    IF i = 0 THEN ind % nI
    ELSE IndexColumn((ind - (ind % nI)) \div nI, nI, i - 1)

DecodeTokens_abmn(ind, nI) ==
    [a |-> IndexColumn(ind, nI, 0) - 1, b |-> IndexColumn(ind, nI, 1) - 1,
     m |-> IndexColumn(ind, nI, 2) - 1, n |-> IndexColumn(ind, nI, 3) - 1]

\* lines 60-61: the columns are the tokens n, m, b, a in that order, minus one
DecodeTokens(ind, nI) ==
    [n |-> IndexColumn(ind, nI, 0) - 1, m |-> IndexColumn(ind, nI, 1) - 1,
     b |-> IndexColumn(ind, nI, 2) - 1, a |-> IndexColumn(ind, nI, 3) - 1]

\* lines 55-57: ind -= col of the first pass is done in place on the array
\* the caller handed in, which loses its last digit; line 57 rebinds ind, so
\* the later passes work on arrays of the function's own
IndAfterCall(ind, nI) ==
    Tup([j \in 1..Len(ind) |-> ind[j] - (ind[j] % nI)], Len(ind))

\* lines 41-64 for data a DataContainer: the sensors of d (line 43), nI
\* defaulting to sensorCount + 1 (line 50), one measurement per key with the
\* decoded index fields and valid = 1; resize (lines 51-52) leaves no value
\* of d in the other fields, which the model omits.  scheme is the container
\* returned, ind the caller's key array as the call leaves it
generateDataFromUniqueIndex(ind, d, nI) ==
    LET base == IF nI = 0 THEN d.sensorCount + 1 ELSE nI
    IN  [scheme |->
            Container(d.sensorCount,
                Tup([j \in 1..Len(ind) |->
                    LET t == DecodeTokens(ind[j], base)
                    IN  [a |-> t.a, b |-> t.b, m |-> t.m, n |-> t.n,
                         valid |-> 1]],
                    Len(ind))),
         ind |-> IndAfterCall(ind, base)]

----------------------------------------------------------------------------
(* The index codec: keys of a container and the container decoded from them *)

\* the index fields of a measurement over the electrode numbers in S; the key
\* reads no other field
IndexMeas(S) ==
    {[a |-> a, b |-> b, m |-> m, n |-> n] : a \in S, b \in S, m \in S, n \in S}

\* one measurement with indices from -1 (no electrode) to sensorCount (one past
\* the layout), or two measurements with indices of the layout
CodecInput(d) ==
    \E s \in 1..MaxSensors :
        \/ \E t \in IndexMeas(-1..s) : d = Container(s, <<t>>)
        \/ \E t1 \in IndexMeas(0..(s - 1)), t2 \in IndexMeas(0..(s - 1)) :
              d = Container(s, <<t1, t2>>)

InitCodec ==
    /\ CodecInput(data)
    /\ unF = <<>>
    /\ unB = <<>>
    /\ scheme = NoContainer
    /\ raised = "none"
    /\ pc = "start"
    /\ pre = NoContainer
    /\ args = [change |-> FALSE, remove |-> FALSE]
    /\ out = [rec |-> <<>>, count |-> 0, both |-> NoContainer]

\* uniqueERTIndex(data, reverse=False): no statement of lines 23-37 raises
EncodeForward ==
    /\ unF = <<>>
    /\ unF' = uniqueERTIndex(data, 0, FALSE)
    /\ raised' = "none"
    /\ pc' = "uniqueERTIndex"
    /\ UNCHANGED <<data, unB, scheme, pre, args, out>>

\* uniqueERTIndex(data, reverse=True)
EncodeReverse ==
    /\ unB = <<>>
    /\ unB' = uniqueERTIndex(data, 0, TRUE)
    /\ raised' = "none"
    /\ pc' = "uniqueERTIndex"
    /\ UNCHANGED <<data, unF, scheme, pre, args, out>>

\* scheme = generateDataFromUniqueIndex(unF, data): the call returns the
\* scheme and changes the array unF it was handed (line 56)
Decode ==
    /\ unF # <<>>
    /\ scheme = NoContainer
    /\ \E res \in {generateDataFromUniqueIndex(unF, data, 0)} :
          /\ scheme' = res.scheme
          /\ unF' = res.ind
    /\ raised' = "none"
    /\ pc' = "generateDataFromUniqueIndex"
    /\ UNCHANGED <<data, unB, pre, args, out>>

NextCodec == EncodeForward \/ EncodeReverse \/ Decode

Spec == InitCodec /\ [][NextCodec]_vars

----------------------------------------------------------------------------
(* getReciprocals, processing.py lines 66-106 *)

\* DataContainer.removeInvalid: keeps the measurements with valid # 0, in order
RECURSIVE SelectValid(_, _)
SelectValid(ms, k) ==
    IF k = 0 THEN <<>>
    ELSE IF ms[k].valid # 0 THEN Append(SelectValid(ms, k - 1), ms[k])
         ELSE SelectValid(ms, k - 1)

removeInvalid(c) == Container(c.sensorCount, SelectValid(c.ms, Len(c.ms)))

\* line 90 / 121: unB[iB] in unF
InKeys(key, un) == \E k \in 1..Len(un) : un[k] = key

\* line 91 / 122: np.nonzero(unF == unB[iB])[0][0], the first match
FirstMatch(key, un) ==
    CHOOSE k \in 1..Len(un) :
        un[k] = key /\ \A l \in 1..(k - 1) : un[l] # key

\* line 94 / 125: (rF - rB) / (rF + rB) * 2
Reciprocity(rF, rB) == RMul(RDiv(RSub(rF, rB), RAdd(rF, rB)), Rat(2))

\* line 98 / 128: (rF * IF + rB * IB) / (IF + IB)
WeightedR(rF, iF, rB, iB) ==
    RDiv(RAdd(RMul(rF, iF), RMul(rB, iB)), RAdd(iF, iB))

\* line 99 / 129: (IF**2 + IB**2) / (IF + IB)
WeightedI(iF, iB) == RDiv(RAdd(RMul(iF, iF), RMul(iB, iB)), RAdd(iF, iB))

\* lines 81-82: r = u / i for all measurements unless every r is nonzero
DeriveR(ms) ==
    IF \A j \in 1..Len(ms) : ms[j].r[1] # 0 THEN ms
    ELSE Tup([j \in 1..Len(ms) |->
                 [ms[j] EXCEPT !.r = RDiv(ms[j].u, ms[j].i)]], Len(ms))

\* line 88: the field rec set to zeros
ZeroRec(ms) ==
    Tup([j \in 1..Len(ms) |-> [ms[j] EXCEPT !.rec = Rat(0)]], Len(ms))

\* lines 90-102: one pass of the loop body for the backward index iB
GetStep(st, iB, unFk, unBk, change, remove) ==
    IF ~InKeys(unBk[iB], unFk) THEN st
    ELSE
        LET iF == FirstMatch(unBk[iB], unFk)
            rF == st.ms[iF].r
            rB == st.ms[iB].r
            rc == Reciprocity(rF, rB)
            cF == st.ms[iF].i
            cB == st.ms[iB].i
            ms1 == [st.ms EXCEPT ![iF].rec = rc]
            merge == change /\ ms1[iF].valid # 0
            newR == WeightedR(rF, cF, rB, cB)
            newI == WeightedI(cF, cB)
            ms2 == IF merge
                   THEN [ms1 EXCEPT ![iF].r = newR, ![iF].i = newI,
                                    ![iF].u = RMul(newR, newI)]
                   ELSE ms1
            ms3 == IF merge /\ remove THEN [ms2 EXCEPT ![iB].valid = 0]
                   ELSE ms2
        IN  [ms |-> ms3,
             rec |-> [st.rec EXCEPT ![iB] = rc],
             count |-> st.count + 1]

\* lines 89-102: the loop over iB = 0 .. size-1 (here 1 .. k)
RECURSIVE GetLoop(_, _, _, _, _, _)
GetLoop(st, k, unFk, unBk, change, remove) ==
    IF k = 0 THEN st
    ELSE GetStep(GetLoop(st, k - 1, unFk, unBk, change, remove),
                 k, unFk, unBk, change, remove)

\* the whole call: the container afterwards, the local rec and len(rF)
getReciprocals(d, change, remove) ==
    LET d1 == Container(d.sensorCount, DeriveR(d.ms))
        unFk == uniqueERTIndex(d1, 0, FALSE)
        unBk == uniqueERTIndex(d1, 0, TRUE)
        st0 == [ms |-> ZeroRec(d1.ms),
                rec |-> Tup([j \in 1..Len(d1.ms) |-> Rat(0)], Len(d1.ms)),
                count |-> 0]
        st == GetLoop(st0, Len(d1.ms), unFk, unBk, change, remove)
        d2 == Container(d.sensorCount, st.ms)
    IN  [data |-> IF remove THEN removeInvalid(d2) ELSE d2,
         rec |-> st.rec,
         count |-> st.count]

\* the four-point configurations on the electrodes 0, 1, s-2, s-1 with
\* ordered, disjoint pairs; the set is closed under exchanging the pairs
Configs(s) ==
    {t \in IndexMeas({0, 1, s - 2, s - 1}) :
        t.a < t.b /\ t.m < t.n /\ {t.a, t.b} \cap {t.m, t.n} = {}}

\* a measurement of configuration t with resistance r, current i, voltage
\* r * i; hasR = FALSE leaves the resistance field unpopulated (zero)
Reading(t, r, i, valid, hasR) ==
    Meas(t.a, t.b, t.m, t.n, IF hasR THEN Rat(r) ELSE Rat(0), Rat(i),
         Rat(r * i), valid)

Readings(s, hasR) ==
    {Reading(t, r, i, v, hasR) :
        t \in Configs(s), r \in 1..MaxVal, i \in 1..MaxVal, v \in {0, 1}}

\* valid measurements of unit resistance and current
UnitReadings(s) == {Reading(t, 1, 1, 1, TRUE) : t \in Configs(s)}

Layouts == {4, LayoutSensors}

InitRecip ==
    /\ \E s \in Layouts, hasR \in BOOLEAN :
          \/ \E x \in Readings(s, hasR) : data = Container(s, <<x>>)
          \/ \E x \in Readings(s, hasR), y \in Readings(s, hasR) :
                data = Container(s, <<x, y>>)
          \/ \E x \in UnitReadings(s), y \in UnitReadings(s),
                z \in Readings(s, TRUE) :
                hasR /\ data = Container(s, <<x, y, z>>)
    /\ unF = <<>>
    /\ unB = <<>>
    /\ scheme = NoContainer
    /\ raised = "none"
    /\ pc = "start"
    /\ pre = NoContainer
    /\ args = [change |-> FALSE, remove |-> FALSE]
    /\ out = [rec |-> <<>>, count |-> 0, both |-> NoContainer]

\* getReciprocals(data, change, remove) changes data in place
GetReciprocals(change, remove) ==
    /\ pc = "start"
    /\ LET res == getReciprocals(data, change, remove)
       IN  /\ data' = res.data
           /\ out' = [rec |-> res.rec, count |-> res.count,
                       both |-> NoContainer]
    /\ pre' = data
    /\ args' = [change |-> change, remove |-> remove]
    /\ pc' = "getReciprocals"
    /\ raised' = "none"
    /\ UNCHANGED <<unF, unB, scheme>>

NextRecip == \E change \in BOOLEAN, remove \in BOOLEAN :
                 GetReciprocals(change, remove)

SpecRecip == InitRecip /\ [][NextRecip]_vars

----------------------------------------------------------------------------
(* extractReciprocals, processing.py lines 109-135 *)

\* lines 121-131: one pass of the loop body for the backward index iB; the
\* voltage of line 130 is the product of the resistance and current of fwd,
\* which the call never changes
ExtractStep(st, iB, unFk, unBk, fwd, bwd) ==
    IF ~InKeys(unBk[iB], unFk) THEN st
    ELSE
        LET iF == FirstMatch(unBk[iB], unFk)
            rF == fwd.ms[iF].r
            rB == bwd.ms[iB].r
            rc == Reciprocity(rF, rB)
            cF == fwd.ms[iF].i
            cB == bwd.ms[iB].i
        IN  [both |-> [st.both EXCEPT ![iF].rec = rc,
                                      ![iF].r = WeightedR(rF, cF, rB, cB),
                                      ![iF].i = WeightedI(cF, cB),
                                      ![iF].u = RMul(rF, cF)],
             back |-> [st.back EXCEPT ![iB].valid = 0],
             rec |-> [st.rec EXCEPT ![iB] = rc],
             count |-> st.count + 1]

\* lines 120-131: the loop over iB = 0 .. bwd.size()-1 (here 1 .. k)
RECURSIVE ExtractLoop(_, _, _, _, _, _)
ExtractLoop(st, k, unFk, unBk, fwd, bwd) ==
    IF k = 0 THEN st
    ELSE ExtractStep(ExtractLoop(st, k - 1, unFk, unBk, fwd, bwd),
                     k, unFk, unBk, fwd, bwd)

\* line 111: nMax = max(fwd.sensorCount(), bwd.sensorCount())
nMax(fwd, bwd) == Max(fwd.sensorCount, bwd.sensorCount)

\* line 134, DataContainer.add: the measurements of c2 appended to those of
\* c1; the layouts share their sensor positions, so the indices stay
AddData(c1, c2) ==
    Container(Max(c1.sensorCount, c2.sensorCount), c1.ms \o c2.ms)

\* the whole call: the returned rec and both, and len(rF)
extractReciprocals(fwd, bwd) ==
    LET unFk == uniqueERTIndex(fwd, nMax(fwd, bwd), FALSE)
        unBk == uniqueERTIndex(bwd, nMax(fwd, bwd), TRUE)
        st0 == [both |-> ZeroRec(fwd.ms),
                back |-> ZeroRec(bwd.ms),
                rec |-> Tup([j \in 1..Len(bwd.ms) |-> Rat(0)], Len(bwd.ms)),
                count |-> 0]
        fin == ExtractLoop(st0, Len(bwd.ms), unFk, unBk, fwd, bwd)
        back == removeInvalid(Container(bwd.sensorCount, fin.back))
    IN  [rec |-> fin.rec,
         count |-> fin.count,
         both |-> AddData(Container(fwd.sensorCount, fin.both), back)]

\* data = <<fwd, bwd>>: one forward and one backward measurement, or two
\* forward measurements of unit values and one backward measurement
InitExtract ==
    /\ \E sF \in Layouts, sB \in Layouts :
          \/ \E x \in Readings(sF, TRUE), y \in Readings(sB, TRUE) :
                data = <<Container(sF, <<x>>), Container(sB, <<y>>)>>
          \/ \E x1 \in UnitReadings(sF), x2 \in UnitReadings(sF),
                y \in Readings(sB, TRUE) :
                data = <<Container(sF, <<x1, x2>>), Container(sB, <<y>>)>>
    /\ unF = <<>>
    /\ unB = <<>>
    /\ scheme = NoContainer
    /\ raised = "none"
    /\ pc = "start"
    /\ pre = NoContainer
    /\ args = [change |-> FALSE, remove |-> FALSE]
    /\ out = [rec |-> <<>>, count |-> 0, both |-> NoContainer]

\* rec, both = extractReciprocals(fwd, bwd); fwd and bwd are not changed
ExtractReciprocals ==
    /\ pc = "start"
    /\ out' = extractReciprocals(data[1], data[2])
    /\ pc' = "extractReciprocals"
    /\ raised' = "none"
    /\ UNCHANGED <<data, unF, unB, scheme, pre, args>>

NextExtract == ExtractReciprocals

SpecExtract == InitExtract /\ [][NextExtract]_vars

----------------------------------------------------------------------------
(* combineMultipleData, processing.py lines 137-167 *)

\* DataContainer.haveData: the field holds some nonzero value
haveData(d, f) == \E j \in 1..Len(d.ms) : d.ms[j][f][1] # 0

\* DataContainer.allNonZero: every value of the field is nonzero
allNonZero(d, f) == \A j \in 1..Len(d.ms) : d.ms[j][f][1] # 0

\* createGeometricFactors for sensors on a line with unit spacing, without
\* the constant factor 2 pi: 1 / (1/AM - 1/AN - 1/BM + 1/BN)
createGeometricFactors(t) ==
    RDiv(Rat(1),
         RAdd(RSub(RSub(<<1, Abs(t.a - t.m)>>, <<1, Abs(t.a - t.n)>>),
                   <<1, Abs(t.b - t.m)>>),
              <<1, Abs(t.b - t.n)>>))

\* line 146: np.unique(np.hstack(uIs)), the keys in ascending order
RECURSIVE SortedUnique(_)
SortedUnique(S) ==
    IF S = {} THEN <<>>
    ELSE LET hi == CHOOSE x \in S : \A y \in S : y <= x
         IN  Append(SortedUnique(S \ {hi}), hi)

AllKeys(uIs) == UNION {{uIs[i][j] : j \in 1..Len(uIs[i])} : i \in 1..Len(uIs)}

searchsorted_Right(uI, key) ==
    Cardinality({k \in 1..Len(uI) : uI[k] <= key}) + 1

\* line 156: np.searchsorted(uI, key), the leftmost insertion position,
\* counted from 1
searchsorted(uI, key) == Cardinality({k \in 1..Len(uI) : uI[k] < key}) + 1

\* lines 157-161: the resistances of dataset di, derived from u / i or from
\* rhoa / k at the rows ii when the field r holds no data
DatasetR(di, ii, k) ==
    LET n == Len(di.ms)
    IN  IF haveData(di, "r") THEN Tup([j \in 1..n |-> di.ms[j].r], n)
        ELSE IF allNonZero(di, "u") /\ allNonZero(di, "i")
             THEN Tup([j \in 1..n |-> RDiv(di.ms[j].u, di.ms[j].i)], n)
        ELSE IF allNonZero(di, "rhoa")
             THEN Tup([j \in 1..n |-> RDiv(di.ms[j].rhoa, k[ii[j]])], n)
        ELSE Tup([j \in 1..n |-> di.ms[j].r], n)

\* lines 163-164: column[ii] = values; a row that several positions of ii
\* name keeps the last value, a row that none names keeps its initial value
Scatter(initial, nRows, ii, values) ==
    Tup([row \in 1..nRows |->
        LET hits == {j \in 1..Len(ii) : ii[j] = row}
        IN  IF hits = {} THEN initial
            ELSE values[CHOOSE j \in hits : \A l \in hits : l <= j]], nRows)

ErrInit_NaN == NaN

\* line 150: ERR = np.zeros_like(R), a matrix of zeros
ErrInit == Rat(0)

\* line 149: R = np.ones(...) * np.nan
RInit == NaN

\* line 166: k * R, NaN where R is NaN
TimesK(k, x) == IF IsNaN(x) THEN NaN ELSE RMul(k, x)

\* line 144: max(np.abs(np.diff(nEls))) == 0; max of the empty difference
\* vector of a single dataset raises ValueError
LayoutCheck(nEls) ==
    IF Len(nEls) < 2 THEN "ValueError"
    ELSE IF \E i \in 1..(Len(nEls) - 1) : nEls[i + 1] # nEls[i]
         THEN "AssertionError"
         ELSE "none"

\* lines 157-161: di['r'] is set in the dataset handed in
WithR(di, rs) ==
    Container(di.sensorCount,
              Tup([j \in 1..Len(di.ms) |-> [di.ms[j] EXCEPT !.r = rs[j]]],
                  Len(di.ms)))

\* lines 145-167 once the layout check has passed: the keys uIs, the scheme,
\* the matrices RHOA and ERR, indexed [row][dataset], and the datasets with
\* their resistances set
combineMultipleData(DATA) ==
    LET nD == Len(DATA)
        uIs == Tup([i \in 1..nD |-> uniqueERTIndex(DATA[i], 0, FALSE)], nD)
        uI0 == SortedUnique(AllKeys(uIs))
        sch == generateDataFromUniqueIndex(uI0, DATA[1], 0).scheme
        nRows == Len(sch.ms)
        uI == uniqueERTIndex(sch, 0, FALSE)
        k == Tup([row \in 1..nRows |-> createGeometricFactors(sch.ms[row])],
                 nRows)
        ii == Tup([i \in 1..nD |->
                     Tup([j \in 1..Len(uIs[i]) |->
                             searchsorted(uI, uIs[i][j])], Len(uIs[i]))], nD)
        rs == Tup([i \in 1..nD |-> DatasetR(DATA[i], ii[i], k)], nD)
        Rcol == Tup([i \in 1..nD |-> Scatter(RInit, nRows, ii[i], rs[i])], nD)
        Ecol == Tup([i \in 1..nD |->
                       Scatter(ErrInit, nRows, ii[i],
                               Tup([j \in 1..Len(DATA[i].ms) |->
                                       DATA[i].ms[j].err], Len(DATA[i].ms)))],
                    nD)
    IN  [uIs |-> uIs,
         uI |-> uI,
         scheme |-> sch,
         k |-> k,
         RHOA |-> Tup([row \in 1..nRows |->
                         Tup([i \in 1..nD |-> TimesK(k[row], Rcol[i][row])],
                             nD)], nRows),
         ERR |-> Tup([row \in 1..nRows |->
                        Tup([i \in 1..nD |-> Ecol[i][row]], nD)], nRows),
         DATA |-> Tup([i \in 1..nD |-> WithR(DATA[i], rs[i])], nD)]

\* a measurement of configuration t and value v, 1/100 v its error: with the
\* resistance v (kind "r"), with voltage 2 v and current 2 (kind "ui"), or with
\* the apparent resistivity v only (kind "rhoa")
MergeReading(t, v, kind) ==
    [a |-> t.a, b |-> t.b, m |-> t.m, n |-> t.n,
     r |-> IF kind = "r" THEN Rat(v) ELSE Rat(0),
     i |-> IF kind = "ui" THEN Rat(2) ELSE Rat(0),
     u |-> IF kind = "ui" THEN Rat(2 * v) ELSE Rat(0),
     rhoa |-> IF kind = "rhoa" THEN Rat(v) ELSE Rat(0),
     err |-> RNorm(v, 100), valid |-> 1, rec |-> Rat(0)]

Kinds == {"r", "ui", "rhoa"}

\* the kinds of the two datasets of a merge of two
KindPairs == {<<"r", "r">>, <<"ui", "rhoa">>, <<"rhoa", "ui">>}

\* datasets of one measurement, or of two, the second of value 1
MergeDatasets(s, kind) ==
    {Container(s, <<MergeReading(t, v, kind)>>) :
        t \in Configs(s), v \in 1..MaxVal}
    \cup {Container(s, <<MergeReading(t1, v, kind),
                           MergeReading(t2, 1, kind)>>) :
             t1 \in Configs(s), v \in 1..MaxVal, t2 \in Configs(s)}

\* datasets of one measurement of value 1
UnitDatasets(s) ==
    {Container(s, <<MergeReading(t, 1, "r")>>) : t \in Configs(s)}

\* data = DATA: one or two datasets over one layout, or two or three unit
\* datasets over layouts that may differ
InitMerge ==
    /\ \/ \E s \in Layouts, k1 \in Kinds :
             \E d1 \in MergeDatasets(s, k1) : data = <<d1>>
       \/ \E s1 \in Layouts, s2 \in Layouts :
             \E d1 \in UnitDatasets(s1), d2 \in UnitDatasets(s2) :
                s1 # s2 /\ data = <<d1, d2>>
       \/ \E s1 \in Layouts, s2 \in Layouts, s3 \in Layouts :
             \E d1 \in UnitDatasets(s1), d2 \in UnitDatasets(s2),
                d3 \in UnitDatasets(s3) : data = <<d1, d2, d3>>
       \/ \E s \in Layouts, kk \in KindPairs :
             \E d1 \in MergeDatasets(s, kk[1]), d2 \in MergeDatasets(s, kk[2]) :
                data = <<d1, d2>>
    /\ unF = <<>>
    /\ unB = <<>>
    /\ scheme = NoContainer
    /\ raised = "none"
    /\ pc = "start"
    /\ pre = NoContainer
    /\ args = [change |-> FALSE, remove |-> FALSE]
    /\ out = [RHOA |-> <<>>, ERR |-> <<>>, k |-> <<>>, uI |-> <<>>]

\* scheme, RHOA, ERR = combineMultipleData(DATA): a failed layout check
\* raises before line 145; otherwise unF holds the keys uIs of line 145 and
\* data the datasets with the resistances set in lines 157-161
CombineMultipleData ==
    /\ pc = "start"
    /\ pc' = "combineMultipleData"
    /\ LET nEls == Tup([i \in 1..Len(data) |-> data[i].sensorCount], Len(data))
           chk == LayoutCheck(nEls)
       IN  IF chk # "none"
           THEN /\ raised' = chk
                /\ UNCHANGED <<data, unF, scheme, out>>
           ELSE \E res \in {combineMultipleData(data)} :
                   /\ raised' = "none"
                   /\ unF' = res.uIs
                   /\ scheme' = res.scheme
                   /\ out' = [RHOA |-> res.RHOA, ERR |-> res.ERR,
                              k |-> res.k, uI |-> res.uI]
                   /\ data' = res.DATA
    /\ UNCHANGED <<unB, pre, args>>

NextMerge == CombineMultipleData

SpecMerge == InitMerge /\ [][NextMerge]_vars

----------------------------------------------------------------------------
(* ERTIPManager.invert, invertTDIP, invertFDIP: ertIPManager.py lines 27-87 *)
(*                                                                         *)
(* In this specification data is the chargeability vector the container    *)
(* of the manager stores under "ip", pre that vector as it was stored,     *)
(* and args the manager's fd flag together with the way the container      *)
(* answers data["ip"]: with the stored vector itself (view) or with a copy *)
(* of it.  out holds the manager's models, the vector handed to the IP     *)
(* inversion (ipdata) and where it came from (source), the one-element     *)
(* numpy array the caller passed last as it was created (array0) and as    *)
(* the calls left it (array), and the history of the calls.  pc is "Idle"  *)
(* before any call, "DCDone" inside invert() after line 83, "Done" when    *)
(* the last call returned and "Failed" when it raised.  The history        *)
(* out.trace holds "DC" / "DCraise" for line 83 of invert(), "TDIP" /      *)
(* "TDIPraise" / "FDIP" for the IP stage of invert() (lines 84-87), and    *)
(* "invertTDIP" / "invertTDIPraise" / "invertTDIPargument" / "invertFDIP"  *)
(* for the methods called directly.                                        *)

\* Largest number of calls of the manager's methods in one behaviour.
MaxCalls == 2

\* line 31: the divisor of ipdata /= 1000
MilliScale == 1000

\* line 30: max(ipdata) > 1
MaxAboveOne(v) == \E j \in 1..Len(v) : v[j][1] > v[j][2]

\* line 31: ipdata /= 1000, every element divided
DivideAll(v) == Tup([j \in 1..Len(v) |-> RDiv(v[j], Rat(MilliScale))], Len(v))

\* lines 30-31: the vector after the unit check
Rescale(v) == IF MaxAboveOne(v) THEN DivideAll(v) ELSE v

\* line 29, ipdata or ...: the truth value of the argument.  None (<<>>) is
\* false and a numpy array of one element has the truth value of its element
Truthy(arg) == arg # <<>> /\ arg[1][1] # 0

AfterDC_Swallowed(ok) == "DCDone"

\* line 83: super().invert() returns, or its exception leaves invert()
AfterDC(ok) == IF ok THEN "DCDone" ELSE "Failed"

\* chargeabilities as fractions (0, 1/2, 1) and in mV/V (5, 12, 5000)
IPValues == {Rat(0), <<1, 2>>, Rat(1), Rat(5), Rat(12), Rat(5000)}

\* vectors of one or two chargeabilities, and the vector [0, 5, 12]
IPVectors(v) ==
    \/ \E x \in IPValues : v = <<x>>
    \/ \E x \in IPValues, y \in IPValues : v = <<x, y>>
    \/ v = <<Rat(0), Rat(5), Rat(12)>>

\* the element of a one-element numpy array passed as ipdata: 0, a fraction,
\* and mV/V values below and above 1000
ArrayValues == {Rat(0), <<1, 2>>, Rat(5), Rat(5000)}

\* the manager after __init__ (lines 24-25): no DC model, no IP model
InitIP ==
    /\ IPVectors(data)
    /\ pre = data
    /\ \E fd \in BOOLEAN, view \in BOOLEAN : args = [fd |-> fd, view |-> view]
    /\ unF = <<>>
    /\ unB = <<>>
    /\ scheme = NoContainer
    /\ raised = "none"
    /\ pc = "Idle"
    /\ out = [model |-> "unset", modelIP |-> "unset", ipdata |-> <<>>,
              source |-> "none", array0 |-> <<>>, array |-> <<>>,
              trace |-> <<>>, calls |-> 0]

\* lines 81-83: invert() starts with the DC inversion of the parent class,
\* which returns the DC model or raises
InvertDC(ok) ==
    /\ pc \in {"Idle", "Done", "Failed"}
    /\ out.calls < MaxCalls
    /\ pc' = AfterDC(ok)
    /\ raised' = IF ok THEN "none" ELSE "InversionDivergence"
    /\ out' = [out EXCEPT !.calls = @ + 1,
                          !.model = IF ok THEN "dc" ELSE @,
                          !.trace = Append(@, IF ok THEN "DC" ELSE "DCraise")]
    /\ UNCHANGED <<data, unF, unB, scheme, pre, args>>

\* lines 27-42.  arg is the argument ipdata as the call receives it (<<>> for
\* None, which leaves the array the caller holds as it is) and arg0 that
\* array as it was created.  Line 29 takes the argument
\* if it is true and data["ip"] otherwise; the unit check (lines 30-31)
\* divides the vector taken in place: the caller's array, or the vector
\* data["ip"] returned, which is the stored vector for a container that
\* returns a view and a copy of it otherwise.  Then the IP inversion runs on
\* the vector and sets modelIP or raises (line 42).  calls is the number of
\* calls counted afterwards, done and failed the history entries
invertTDIP(arg, arg0, ok, calls, done, failed) ==
    \E v \in {Rescale(IF Truthy(arg) THEN arg ELSE data)} :
        /\ data' = IF ~Truthy(arg) /\ args.view THEN v ELSE data
        /\ raised' = IF ok THEN "none" ELSE "InversionDivergence"
        /\ pc' = IF ok THEN "Done" ELSE "Failed"
        /\ out' = [out EXCEPT !.calls = calls,
                              !.ipdata = v,
                              !.source = IF Truthy(arg) THEN "array"
                                         ELSE "data",
                              !.array0 = IF arg = <<>> THEN @ ELSE arg0,
                              !.array = IF Truthy(arg) THEN v
                                        ELSE IF arg = <<>> THEN @ ELSE arg,
                              !.modelIP = IF ok THEN "ip" ELSE @,
                              !.trace = Append(@, IF ok THEN done
                                                  ELSE failed)]

\* lines 44-46: modelIP = None
invertFDIP(calls, done) ==
    /\ raised' = "none"
    /\ pc' = "Done"
    /\ out' = [out EXCEPT !.calls = calls,
                          !.modelIP = "None",
                          !.trace = Append(@, done)]
    /\ UNCHANGED data

\* lines 84-87: the IP stage of invert(), after the DC inversion returned;
\* invertTDIP is called without an argument
InvertIP(ok) ==
    /\ pc = "DCDone"
    /\ IF args.fd THEN invertFDIP(out.calls, "FDIP")
       ELSE invertTDIP(<<>>, <<>>, ok, out.calls, "TDIP", "TDIPraise")
    /\ UNCHANGED <<unF, unB, scheme, pre, args>>

\* mgr.invertTDIP() called directly, on any manager: the method checks neither
\* the fd flag nor that a DC inversion has run
CallInvertTDIP(ok) ==
    /\ pc \in {"Idle", "Done", "Failed"}
    /\ out.calls < MaxCalls
    /\ invertTDIP(<<>>, <<>>, ok, out.calls + 1,
                  "invertTDIP", "invertTDIPraise")
    /\ UNCHANGED <<unF, unB, scheme, pre, args>>

\* mgr.invertTDIP(ipdata) called with a non-empty list, which has no /= and
\* no division (TypeError, line 31 or 38), or with a numpy array of two or
\* more elements, which has no truth value (ValueError, line 29): the call
\* raises before the IP inversion and changes nothing of the manager
CallInvertTDIPWith(kind) ==
    /\ pc \in {"Idle", "Done", "Failed"}
    /\ out.calls < MaxCalls
    /\ raised' = IF kind = "list" THEN "TypeError" ELSE "ValueError"
    /\ pc' = "Failed"
    /\ out' = [out EXCEPT !.calls = @ + 1,
                          !.trace = Append(@, "invertTDIPargument")]
    /\ UNCHANGED <<data, unF, unB, scheme, pre, args>>

\* mgr.invertTDIP(np.array([x])) called directly with a new numpy array of one
\* element: an element that is not 0 makes the array true, the inversion
\* runs on the array and data["ip"] is not read; the array [0] is false and
\* the call goes on with data["ip"]
CallInvertTDIPArray(x, ok) ==
    /\ pc \in {"Idle", "Done", "Failed"}
    /\ out.calls < MaxCalls
    /\ invertTDIP(<<x>>, <<x>>, ok, out.calls + 1,
                  "invertTDIP", "invertTDIPraise")
    /\ UNCHANGED <<unF, unB, scheme, pre, args>>

\* mgr.invertTDIP(a) called directly with the array a of the last such call,
\* as that call left it
CallInvertTDIPSame(ok) ==
    /\ pc \in {"Idle", "Done", "Failed"}
    /\ out.calls < MaxCalls
    /\ out.array # <<>>
    /\ invertTDIP(out.array, out.array0, ok, out.calls + 1,
                  "invertTDIP", "invertTDIPraise")
    /\ UNCHANGED <<unF, unB, scheme, pre, args>>

\* mgr.invertFDIP() called directly, on any manager
CallInvertFDIP ==
    /\ pc \in {"Idle", "Done", "Failed"}
    /\ out.calls < MaxCalls
    /\ invertFDIP(out.calls + 1, "invertFDIP")
    /\ UNCHANGED <<unF, unB, scheme, pre, args>>

NextIP ==
    \/ \E ok \in BOOLEAN : InvertDC(ok) \/ InvertIP(ok) \/ CallInvertTDIP(ok)
    \/ \E kind \in {"list", "array"} : CallInvertTDIPWith(kind)
    \/ \E x \in ArrayValues, ok \in BOOLEAN : CallInvertTDIPArray(x, ok)
    \/ \E ok \in BOOLEAN : CallInvertTDIPSame(ok)
    \/ CallInvertFDIP

SpecIP == InitIP /\ [][NextIP]_vars

----------------------------------------------------------------------------
(* Properties of the index codec *)

\* every index of measurement t is an electrode of a layout of s sensors
ValidIndices(t, s) ==
    /\ t.a \in 0..(s - 1) /\ t.b \in 0..(s - 1)
    /\ t.m \in 0..(s - 1) /\ t.n \in 0..(s - 1)

\* the same measurement with current and potential pair exchanged
Reciprocal(t) == [a |-> t.m, b |-> t.n, m |-> t.a, n |-> t.b]

SamePairs(t1, t2) ==
    /\ {t1.a, t1.b} = {t2.a, t2.b}
    /\ {t1.m, t1.n} = {t2.m, t2.n}

\* unF holds the forward keys as uniqueERTIndex returned them: the array has
\* not been handed to generateDataFromUniqueIndex, which changes it
ForwardKeys == unF # <<>> /\ scheme = NoContainer

\* C1: with base sensorCount + 1, the reverse key of a measurement (a,b,m,n)
\* with valid indices equals the forward key of the measurement (m,n,a,b).
C1_ReciprocalSymmetry ==
    (ForwardKeys /\ unB # <<>>) =>
        \A i \in 1..Len(data.ms), j \in 1..Len(data.ms) :
            ( /\ ValidIndices(data.ms[i], data.sensorCount)
              /\ data.ms[j] = Reciprocal(data.ms[i]) )
            => unB[i] = unF[j]

C1_Witness ==
    /\ data.sensorCount = 4
    /\ Len(data.ms) = 2
    /\ data.ms[1] = [a |-> 0, b |-> 1, m |-> 2, n |-> 3]
    /\ data.ms[2] = [a |-> 2, b |-> 3, m |-> 0, n |-> 1]
    /\ ForwardKeys /\ unB # <<>>
    /\ unB[1] = unF[2]
    /\ unF[1] # unF[2]

\* C2: decoding the forward key of a measurement with valid indices gives
\* a, b = min(a,b), max(a,b) and m, n = min(m,n), max(m,n).
C2_DecodeEncode ==
    scheme # NoContainer =>
        /\ Len(scheme.ms) = Len(data.ms)
        /\ \A j \in 1..Len(data.ms) :
              ValidIndices(data.ms[j], data.sensorCount) =>
                  /\ scheme.ms[j].a = Min(data.ms[j].a, data.ms[j].b)
                  /\ scheme.ms[j].b = Max(data.ms[j].a, data.ms[j].b)
                  /\ scheme.ms[j].m = Min(data.ms[j].m, data.ms[j].n)
                  /\ scheme.ms[j].n = Max(data.ms[j].m, data.ms[j].n)

C2_Witness ==
    /\ scheme # NoContainer
    /\ data.sensorCount = 4
    /\ data.ms[1] = [a |-> 1, b |-> 0, m |-> 3, n |-> 2]
    /\ scheme.ms[1].a = 0 /\ scheme.ms[1].b = 1
    /\ scheme.ms[1].m = 2 /\ scheme.ms[1].n = 3

\* C3: under one orientation two measurements with valid indices have the same
\* key exactly when their unordered current pairs and their unordered potential
\* pairs are the same.
C3_KeyIdentifiesPairs ==
    \A i \in 1..Len(data.ms), j \in 1..Len(data.ms) :
        ( /\ ValidIndices(data.ms[i], data.sensorCount)
          /\ ValidIndices(data.ms[j], data.sensorCount) )
        => /\ ForwardKeys =>
                (unF[i] = unF[j] <=> SamePairs(data.ms[i], data.ms[j]))
           /\ unB # <<>> =>
                (unB[i] = unB[j] <=> SamePairs(data.ms[i], data.ms[j]))

C3_Witness ==
    /\ Len(data.ms) = 2
    /\ data.ms[1] = [a |-> 0, b |-> 1, m |-> 2, n |-> 3]
    /\ data.ms[2] = [a |-> 1, b |-> 0, m |-> 3, n |-> 2]
    /\ ForwardKeys /\ unF[1] = unF[2]
    /\ unB # <<>> /\ unB[1] = unB[2]

\* some index of measurement t is negative or >= sensorCount
OutOfRange(t, s) == ~ValidIndices(t, s)

\* C10: encoding a measurement with an index that is negative or
\* >= sensorCount fails with InvalidLayout and returns no key.
C10_InvalidLayoutRaised ==
    ( /\ pc = "uniqueERTIndex"
      /\ \E j \in 1..Len(data.ms) : OutOfRange(data.ms[j], data.sensorCount) )
    => (raised = "InvalidLayout" /\ unF = <<>> /\ unB = <<>>)

\* the four digits d1..d4 packed in base nI
Digits4(d1, d2, d3, d4, nI) == ((d1 * nI + d2) * nI + d3) * nI + d4

\* what uniqueERTIndex does with a measurement that has an index out of
\* range: it raises nothing and packs the digits min+1, max+1 like any other,
\* so an index of sensorCount gives a digit equal to the base
C10_KeyOfOutOfRange ==
    \A j \in 1..Len(data.ms) :
        LET t == data.ms[j]
            nI == data.sensorCount + 1
        IN  OutOfRange(t, data.sensorCount) =>
              /\ pc = "uniqueERTIndex" => raised = "none"
              /\ ForwardKeys =>
                    unF[j] = Digits4(Min(t.a, t.b) + 1, Max(t.a, t.b) + 1,
                                     Min(t.m, t.n) + 1, Max(t.m, t.n) + 1, nI)
              /\ unB # <<>> =>
                    unB[j] = Digits4(Min(t.m, t.n) + 1, Max(t.m, t.n) + 1,
                                     Min(t.a, t.b) + 1, Max(t.a, t.b) + 1, nI)

----------------------------------------------------------------------------
(* Properties of getReciprocals *)

NumValid(d) == Cardinality({j \in 1..Len(d.ms) : d.ms[j].valid # 0})

\* measurement iB of container d is the backward partner of a forward
\* measurement: its reverse key is among the forward keys
Matched(d, iB) ==
    InKeys(uniqueERTIndex(d, 0, TRUE)[iB], uniqueERTIndex(d, 0, FALSE))

PartnerOf(d, iB) ==
    FirstMatch(uniqueERTIndex(d, 0, TRUE)[iB], uniqueERTIndex(d, 0, FALSE))

\* C6: getReciprocals with remove=True deletes nothing; for any value of
\* change the data has as many measurements after the call as before, and
\* every matched backward measurement is still there with valid = 0.
C6_MarkedNotDeleted ==
    (pc = "getReciprocals" /\ args.remove) =>
        /\ Len(data.ms) = Len(pre.ms)
        /\ \A iB \in 1..Len(pre.ms) :
              Matched(pre, iB) => data.ms[iB].valid = 0

\* what getReciprocals does with remove=True and change=False: line 102 is
\* never reached, so no backward measurement is marked, and removeInvalid
\* drops exactly the measurements that were invalid before the call
C6_RemoveWithoutChange ==
    (pc = "getReciprocals" /\ args.remove /\ ~args.change) =>
        /\ Len(data.ms) = NumValid(pre)
        /\ \A j \in 1..Len(data.ms) : data.ms[j].valid # 0

----------------------------------------------------------------------------
(* Properties of extractReciprocals *)

\* the index fields of a measurement
IndexOf(x) == [a |-> x.a, b |-> x.b, m |-> x.m, n |-> x.n]

\* fwd and bwd hold one measurement each over one layout, and the backward
\* measurement's (A,B,M,N) is the forward measurement's (M,N,A,B)
ExactReciprocals(fwd, bwd) ==
    /\ fwd.sensorCount = bwd.sensorCount
    /\ Len(fwd.ms) = 1 /\ Len(bwd.ms) = 1
    /\ IndexOf(bwd.ms[1]) = Reciprocal(IndexOf(fwd.ms[1]))

\* C4: for two datasets that are exact reciprocals of each other over a shared
\* layout the matcher reports exactly one matched pair, and the reciprocity of
\* the pair is 0 when the two resistances are equal.
C4_ExactReciprocalsMatch ==
    (pc = "extractReciprocals" /\ ExactReciprocals(data[1], data[2])) =>
        /\ out.count = 1
        /\ out.rec[1] = Reciprocity(data[1].ms[1].r, data[2].ms[1].r)
        /\ out.both.ms[1].rec = out.rec[1]
        /\ data[1].ms[1].r = data[2].ms[1].r => out.rec[1] = Rat(0)
        /\ data[1].ms[1].r # data[2].ms[1].r => out.rec[1] # Rat(0)

C4_Witness ==
    /\ pc = "extractReciprocals"
    /\ data[1].sensorCount = 8 /\ data[2].sensorCount = 8
    /\ Len(data[1].ms) = 1
    /\ IndexOf(data[1].ms[1]) = [a |-> 0, b |-> 1, m |-> 6, n |-> 7]
    /\ IndexOf(data[2].ms[1]) = [a |-> 6, b |-> 7, m |-> 0, n |-> 1]
    /\ data[1].ms[1].r = Rat(2) /\ data[2].ms[1].r = Rat(2)
    /\ out.count = 1
    /\ out.rec = <<Rat(0)>>

\* C5: every matched forward measurement ends with the current-weighted
\* resistance r' = (rF*IF + rB*IB)/(IF+IB), the current
\* i' = (IF^2+IB^2)/(IF+IB) and the voltage u' = r'*i' of the values the two
\* measurements held before the call.
C5_MergedValues ==
    pc = "extractReciprocals" =>
        LET fwd == data[1]
            bwd == data[2]
            unFk == uniqueERTIndex(fwd, nMax(fwd, bwd), FALSE)
            unBk == uniqueERTIndex(bwd, nMax(fwd, bwd), TRUE)
        IN  \A iB \in 1..Len(bwd.ms) :
                InKeys(unBk[iB], unFk) =>
                    LET iF == FirstMatch(unBk[iB], unFk)
                        newR == WeightedR(fwd.ms[iF].r, fwd.ms[iF].i,
                                          bwd.ms[iB].r, bwd.ms[iB].i)
                        newI == WeightedI(fwd.ms[iF].i, bwd.ms[iB].i)
                    IN  /\ out.both.ms[iF].r = newR
                        /\ out.both.ms[iF].i = newI
                        /\ out.both.ms[iF].u = RMul(newR, newI)
                        /\ out.both.ms[iF].u =
                              RMul(out.both.ms[iF].r, out.both.ms[iF].i)

\* C5 for getReciprocals with change=True and remove=False: the same values
\* in every forward measurement that was valid before the call.
C5_GetReciprocalsMerged ==
    (pc = "getReciprocals" /\ args.change /\ ~args.remove) =>
        LET d == Container(pre.sensorCount, DeriveR(pre.ms))
        IN  \A iB \in 1..Len(d.ms) :
                (Matched(d, iB) /\ d.ms[PartnerOf(d, iB)].valid # 0) =>
                    LET iF == PartnerOf(d, iB)
                        newR == WeightedR(d.ms[iF].r, d.ms[iF].i,
                                          d.ms[iB].r, d.ms[iB].i)
                        newI == WeightedI(d.ms[iF].i, d.ms[iB].i)
                    IN  /\ data.ms[iF].r = newR
                        /\ data.ms[iF].i = newI
                        /\ data.ms[iF].u = RMul(newR, newI)

----------------------------------------------------------------------------
(* Properties of combineMultipleData *)

\* the keys of dataset i of DATA
KeySet(i) == {uniqueERTIndex(data[i], 0, FALSE)[j] : j \in 1..Len(data[i].ms)}

\* the last measurement of dataset i with the given key
LastWithKey(i, key) ==
    CHOOSE j \in 1..Len(data[i].ms) :
        /\ uniqueERTIndex(data[i], 0, FALSE)[j] = key
        /\ \A l \in (j + 1)..Len(data[i].ms) :
              uniqueERTIndex(data[i], 0, FALSE)[l] # key

Merged == pc = "combineMultipleData" /\ raised = "none"

\* C7: two datasets over one layout with disjoint key sets of sizes p and q
\* give a scheme of p + q measurements; each row of the returned data matrix
\* has exactly one non-NaN entry, in the column of the dataset that holds the
\* row's key, and it is that dataset's value for the key: the geometric factor
\* of the row times the dataset's resistance, which is the dataset's own
\* apparent resistivity when that is what it holds.
C7_DisjointMerge ==
    (Merged /\ Len(data) = 2 /\ KeySet(1) \cap KeySet(2) = {}) =>
        /\ Len(scheme.ms) = Cardinality(KeySet(1)) + Cardinality(KeySet(2))
        /\ Len(out.RHOA) = Len(scheme.ms)
        /\ \A row \in 1..Len(scheme.ms) :
              /\ Cardinality({i \in 1..2 : ~IsNaN(out.RHOA[row][i])}) = 1
              /\ \A i \in 1..2 :
                    ~IsNaN(out.RHOA[row][i]) <=> out.uI[row] \in KeySet(i)
              /\ \A i \in 1..2 :
                    out.uI[row] \in KeySet(i) =>
                        LET x == data[i].ms[LastWithKey(i, out.uI[row])]
                        IN  /\ SamePairs(scheme.ms[row], x)
                            /\ out.RHOA[row][i] = RMul(out.k[row], x.r)
                            /\ x.rhoa # Rat(0) => out.RHOA[row][i] = x.rhoa
                            /\ x.u # Rat(0) => x.r = RDiv(x.u, x.i)

C7_Witness ==
    /\ Merged
    /\ Len(data) = 2
    /\ Len(data[1].ms) = 2 /\ Len(data[2].ms) = 2
    /\ Cardinality(KeySet(1)) = 2 /\ Cardinality(KeySet(2)) = 2
    /\ KeySet(1) \cap KeySet(2) = {}
    /\ Len(scheme.ms) = 4
    /\ data[2].ms[1].rhoa = Rat(2)
    /\ \E row \in 1..4 : out.RHOA[row] = <<NaN, Rat(2)>>

\* C8 as claimed: a row whose key does not occur in dataset i holds NaN in
\* column i of the data matrix and of the error matrix.
C8_MissingIsNaN ==
    Merged =>
        \A row \in 1..Len(scheme.ms), i \in 1..Len(data) :
            out.uI[row] \notin KeySet(i) =>
                (IsNaN(out.RHOA[row][i]) /\ IsNaN(out.ERR[row][i]))

\* C8 amended: a row whose key does not occur in dataset i holds NaN in
\* column i of the data matrix and 0 in column i of the error matrix; a row
\* whose key occurs in dataset i holds the dataset's error there.
C8_MissingNaNAndZero ==
    Merged =>
        \A row \in 1..Len(scheme.ms), i \in 1..Len(data) :
            /\ out.uI[row] \notin KeySet(i) =>
                  (IsNaN(out.RHOA[row][i]) /\ out.ERR[row][i] = Rat(0))
            /\ out.uI[row] \in KeySet(i) =>
                  /\ ~IsNaN(out.RHOA[row][i])
                  /\ out.ERR[row][i] =
                        data[i].ms[LastWithKey(i, out.uI[row])].err

C8_Witness ==
    /\ Merged
    /\ Len(data) = 2
    /\ \E row \in 1..Len(scheme.ms) :
          /\ out.uI[row] \in KeySet(1)
          /\ out.uI[row] \notin KeySet(2)
          /\ IsNaN(out.RHOA[row][2])
          /\ out.ERR[row][2] = Rat(0)
          /\ out.ERR[row][1] = <<1, 50>>

AllEqual(DATA) ==
    \A i \in 1..Len(DATA), j \in 1..Len(DATA) :
        DATA[i].sensorCount = DATA[j].sensorCount

\* C9: the merge fails with the layout error whenever the sensor counts are
\* not all equal, before any key, scheme or matrix is computed, and the check
\* does not fail for any non-empty sequence of datasets of equal sensor counts.
C9_LayoutCheck ==
    pc = "combineMultipleData" =>
        /\ ~AllEqual(data) =>
              /\ raised = "AssertionError"
              /\ unF = <<>> /\ scheme = NoContainer /\ out.RHOA = <<>>
        /\ AllEqual(data) => raised = "none"

----------------------------------------------------------------------------
(* Properties of the DC -> IP workflow *)

\* an entry of the history written by the IP stage of invert()
IsIPStage(e) == e \in {"TDIP", "TDIPraise", "FDIP"}

\* C11: in the workflow invert() the IP stage starts only after the DC stage
\* has completed: every IP stage of invert() in the history comes directly
\* after a DC inversion that returned, never after one that raised, the
\* domain of the stage is the manager's; a DC inversion that raised ends the
\* call with its exception, and as long as only DC inversions have run no IP
\* model is set and no vector has been handed to an IP inversion.
C11_DCBeforeIP ==
    /\ \A k \in 1..Len(out.trace) :
          IsIPStage(out.trace[k]) =>
              /\ k > 1
              /\ out.trace[k - 1] = "DC"
              /\ out.trace[k] = "FDIP" <=> args.fd
    /\ (\A k \in 1..Len(out.trace) : out.trace[k] \in {"DC", "DCraise"}) =>
          (out.modelIP = "unset" /\ out.ipdata = <<>> /\ data = pre)
    /\ (Len(out.trace) > 0 /\ out.trace[Len(out.trace)] = "DCraise") =>
          (pc = "Failed" /\ raised = "InversionDivergence")
    /\ pc = "DCDone" <=>
          (Len(out.trace) > 0 /\ out.trace[Len(out.trace)] = "DC")

C11_Witness ==
    /\ pc = "Failed"
    /\ raised = "InversionDivergence"
    /\ out.trace = <<"DCraise">>
    /\ out.modelIP = "unset"
    /\ out.ipdata = <<>>

\* the vector the last time-domain IP inversion was called on, as it was
\* before any call: the chargeability data as stored, or the caller's array
\* as it was created
OriginalVector == IF out.source = "array" THEN out.array0 ELSE pre

\* C12: the vector handed to the IP inversion is the chargeability data
\* divided by 1000 if its maximum exceeds 1 and the data itself otherwise,
\* in the first call of the time-domain IP stage and in every later one.
C12_RescaledOnce ==
    out.ipdata # <<>> =>
        out.ipdata = IF MaxAboveOne(OriginalVector)
                     THEN DivideAll(OriginalVector) ELSE OriginalVector

\* C12 where the division cannot repeat: for a vector whose maximum is at
\* most 1000, and for the stored data of a container that answers
\* data["ip"] with a copy, the vector handed to the IP inversion is the
\* original divided by 1000 exactly once if its maximum exceeds 1, and the
\* original itself otherwise, however often the stage is called.
C12_RescaledOnceBelow1000 ==
    (/\ out.ipdata # <<>>
     /\ \/ ~MaxAboveOne(DivideAll(OriginalVector))
        \/ out.source = "data" /\ ~args.view) =>
        out.ipdata = IF MaxAboveOne(OriginalVector)
                     THEN DivideAll(OriginalVector) ELSE OriginalVector

\* a container that answers data["ip"] with a copy keeps the stored vector
\* through every call
CopyKeepsStored == ~args.view => data = pre

----------------------------------------------------------------------------
(* Properties of the base of the keys *)

\* digit i (0-based, last digit first) of the key of measurement t under the
\* given orientation
DigitOf(t, reverse, i) == normABMN(t)[abmn(reverse)[4 - i]]

\* the keys of container c, computed with base nI under the given
\* orientation, keep each digit: every digit is below the base and is read
\* back from the key by mod and floor-div
DigitsKept(c, nI, reverse) ==
    \A j \in 1..Len(c.ms), i \in 0..3 :
        /\ DigitOf(c.ms[j], reverse, i) < nI
        /\ IndexColumn(uniqueERTIndex(c, nI, reverse)[j], nI, i) =
              DigitOf(c.ms[j], reverse, i)

\* C13: the forward and backward keys computed in extractReciprocals use the
\* base sensorCount + 1 of the layout being encoded, so each of the four
\* digits index + 1 is strictly less than the base and no digit overflows
\* into the next.
C13_DigitsBelowBase ==
    pc = "extractReciprocals" =>
        LET fwd == data[1]
            bwd == data[2]
        IN  /\ nMax(fwd, bwd) = fwd.sensorCount + 1
            /\ nMax(fwd, bwd) = bwd.sensorCount + 1
            /\ DigitsKept(fwd, nMax(fwd, bwd), FALSE)
            /\ DigitsKept(bwd, nMax(fwd, bwd), TRUE)

\* C13 for the keys of getReciprocals and combineMultipleData: they are
\* computed with the default base sensorCount + 1 and keep each digit.
C13_DefaultBaseKeepsDigits ==
    /\ pc = "getReciprocals" =>
          /\ IndexBase(pre, 0) = pre.sensorCount + 1
          /\ DigitsKept(pre, IndexBase(pre, 0), FALSE)
          /\ DigitsKept(pre, IndexBase(pre, 0), TRUE)
    /\ Merged =>
          \A i \in 1..Len(data) :
              DigitsKept(data[i], IndexBase(data[i], 0), FALSE)

====
